---- MODULE Spec2Model ----
(***************************************************************************)
(* A model of libpickle's document parsing engine (pickle.c): the line     *)
(* reader pickle_util_getline, the record parsers pickle_property_parse    *)
(* and pickle_category_parse, the classifier pickle_parser_iscat, the     *)
(* document assembler pickle_doc_parse, the copy routines                  *)
(* pickle_util_strcpy and pickle_util_strstrcpy, and the life of a         *)
(* document: pickle_doc_new, pickle_doc_fopen, pickle_doc_fclose and       *)
(* pickle_doc_free.                                                        *)
(*                                                                         *)
(* Text is modelled by sequences of one-character strings, one per byte.   *)
(* A line returned by pickle_util_getline is a properly terminated C       *)
(* string (the reader writes the terminator inside its LINEBUF_MAX_LEN     *)
(* buffer), so it is the sequence of its characters and its terminator     *)
(* reads as "".  The strings stored in records are modelled as heap        *)
(* buffers, byte for byte as the copy routines write them: the character   *)
(* NUL stands for the zero byte and the character GARBAGE for a non-zero   *)
(* byte the program never wrote.  Input bytes are 7-bit text and plain     *)
(* char is taken to be signed, so that (char)getc(fh) == EOF holds exactly *)
(* at the end of the stream.                                               *)
(***************************************************************************)
EXTENDS Integers, Sequences, FiniteSets, TLC

VARIABLES
    file,        \* bytes of the file behind doc->fname (the environment)
    fh,          \* doc->fh: "NULL" or "OPEN"
    pos,         \* number of bytes of the stream consumed by getc
    feof,        \* end-of-file indicator of the stream
    properties,  \* doc->properties[0 .. len_properties-1]
    categories,  \* doc->categories[0 .. len_categories-1]
    components,  \* doc->components[0 .. len_components-1]
    pc,          \* position of the caller / of pickle_doc_parse
    err,         \* err of pickle_doc_parse; its return value once pc = "returned"
    errmsg,      \* pickle_error_msg_buf
    nread,       \* history: lines taken from the stream by pickle_doc_parse
    lastline,    \* history: the line of the latest iteration (NoLine if none)
    ub,          \* history: times pickle_property_parse was entered with NULL
    heap,        \* what this run's allocator leaves in bytes the code never wrote
    pline,       \* argument of a direct call of a record parser
    pres,        \* outcome of a direct call of a parser or of the line reader
    maxlen,      \* mlen of the direct calls of pickle_util_getline
    calls,       \* history: calls of pickle_doc_parse on this document
    fname        \* doc->fname: "NULL", "LIVE", "FREED" or "STALE"

vars == <<file, fh, pos, feof, properties, categories, components, pc, err,
          errmsg, nread, lastline, ub, heap, pline, pres, maxlen,
          calls, fname>>

----------------------------------------------------------------------------
(* Bounds of the model.                                                    *)

MaxLines == 4        \* lines of a generated file
MaxLineLen == 4      \* length of a line handed directly to a record parser
MaxFileLen == 4      \* bytes of a short file handed to the line reader
MaxReads == 4        \* successive calls of the line reader on one stream
MaxParses == 2       \* calls of pickle_doc_parse on one document
MaxGarbage == 1      \* properties built from the bytes read through NULL

----------------------------------------------------------------------------
(* Program constants.                                                      *)

PICKLE_FINISHED_PARSING == -2
PICKLE_PARSED_BLANK == -1
PICKLE_OK == 0
PICKLE_ERROR_FILE == 1
PICKLE_ERROR_PARSING == 2
PICKLE_ERROR_UNKNOWN == 3
PICKLE_ERROR_NOT_IMPL == 4

LINEBUF_MAX_LEN == 1024
VALID_WHITESPACE == {" ", "\t"}

\* variant: only the codes above PICKLE_ERROR_PARSING count as errors
IF_PICKLE_ERROR_above_parsing(e) == e > PICKLE_ERROR_PARSING

IF_PICKLE_ERROR(e) == e > PICKLE_OK

NUL == "0"
GARBAGE == "?"
NoLine == <<"NULL">>
NoMsg == ""

MSG_NOT_OPEN == "Can't parse a document that hasn't been opened yet."
MSG_CLOSE == "Couldn't close file"
MSG_OPEN == "Couldn't open file"
MSG_ALREADY_OPEN == "A document is already open"
MSG_READ == "An error occurred while reading a line from the document."
MSG_PROP_DASH == "A property can't start with a dash."
MSG_PROP_COLON == "Property line must not start with a colon."
MSG_PROP_NOSEP == "Property line does not contain a colon."
MSG_PROP_NOVAL == "Property line does not contain a value."
MSG_CAT_COLON == "Category line must not start with a colon."
MSG_CAT_NOSEP == "Category line does not contain a colon."

----------------------------------------------------------------------------
(* C string primitives.                                                    *)

\* the sequence of the characters of a string literal
Str(lit) == [i \in 1..Len(lit) |-> SubSeq(lit, i, i)]

\* s[i], with the terminator read as the empty string
CharAt(s, i) == IF i >= 1 /\ i <= Len(s) THEN s[i] ELSE ""

Min(S) == CHOOSE x \in S : \A y \in S : x <= y

\* strpbrk(s, accept): index of the first byte of s in accept, 0 for NULL
\* variant: the terminator's index instead of NULL when no byte is in accept
strpbrk_to_end(s, accept) ==
    LET hits == {i \in 1..Len(s) : CharAt(s, i) \in accept}
    IN  IF hits = {} THEN Len(s) + 1 ELSE Min(hits)

strpbrk(s, accept) ==
    LET hits == {i \in 1..Len(s) : CharAt(s, i) \in accept}
    IN  IF hits = {} THEN 0 ELSE Min(hits)

\* strspn(s, accept): length of the leading run of bytes of s in accept
\* variant: a run that reaches the terminator is counted one byte short
strspn_short(s, accept) ==
    LET stops == {i \in 1..Len(s) : CharAt(s, i) \notin accept}
    IN  IF stops = {} THEN Len(s) - 1 ELSE Min(stops) - 1

strspn(s, accept) ==
    LET stops == {i \in 1..Len(s) : CharAt(s, i) \notin accept}
    IN  IF stops = {} THEN Len(s) ELSE Min(stops) - 1

\* the bytes of s from index i to its terminator (the C pointer s + i - 1)
From(s, i) == SubSeq(s, i, Len(s))

\* strcmp(line, "---") == 0
\* variant: any line that begins with --- ends the header
IsTerminator_prefix(line) ==
    Len(line) >= 3 /\ SubSeq(line, 1, 3) = Str("---")

IsTerminator(line) == line = Str("---")

\* if (err == PICKLE_OK) before pickle_doc_property_add / _category_add
\* variant: a record is kept whenever the parser reports PICKLE_OK or more
Parsed_or_failed(e) == e >= PICKLE_OK

Parsed(e) == e = PICKLE_OK

\* the condition of the first do-while of pickle_doc_parse
\* variant: a blank line ends the header as well
HeaderLoops_until_blank(e) == e >= PICKLE_OK

HeaderLoops(e) == e # PICKLE_FINISHED_PARSING

\* the condition of the second do-while of pickle_doc_parse
BodyLoops(e) == (e <= PICKLE_OK) /\ (e # PICKLE_FINISHED_PARSING)

----------------------------------------------------------------------------
(* Utilities.                                                              *)

\* pickle_util_iswtspc: does buf consist only of whitespace?
\* variant: only the empty line counts
pickle_util_iswtspc_empty(buf) == CharAt(buf, 1) = ""

pickle_util_iswtspc(buf) == CharAt(buf, strspn(buf, VALID_WHITESPACE) + 1) = ""

(* A heap buffer: size is the number of bytes asked of malloc/realloc and  *)
(* bytes holds what a read through the pointer finds, from the first byte  *)
(* on; a byte at an index above size lies outside the allocation.          *)
Buffer(n, bs) == [size |-> n, bytes |-> bs]

(* pickle_util_strstrcpy(&dest, start, end) with start = s + first - 1 and *)
(* end = s + last - 1.  It allocates (end - start) + 1 bytes, copies with  *)
(* a do-while (so one byte at least) and then stores the terminator at     *)
(* dest[len], one byte past the allocation.  after is what a later read    *)
(* finds in that byte: the NUL just stored, or GARBAGE once the owner of   *)
(* that byte has rewritten it.                                             *)
\* variant: the byte after end is copied too
pickle_util_strstrcpy_through(s, first, last, after) ==
    LET len == (last - first) + 2
        src == [i \in 1..len |-> IF CharAt(s, first + i - 1) = ""
                                 THEN NUL ELSE CharAt(s, first + i - 1)]
    IN  [dest |-> Buffer(len, src \o <<after>>), len |-> len]

pickle_util_strstrcpy(s, first, last, after) ==
    LET len == (last - first) + 1
        n   == IF last >= first THEN len ELSE 1
        src == [i \in 1..n |-> IF CharAt(s, first + i - 1) = ""
                               THEN NUL ELSE CharAt(s, first + i - 1)]
    IN  [dest |-> Buffer(len, src \o <<after>>), len |-> n]

(* pickle_util_strcpy(&dest, src) with *dest == NULL.  It allocates        *)
(* strlen(src) + 1 bytes whose content is fresh (NUL or GARBAGE), copies   *)
(* with a do-while until the byte after the one copied is the terminator   *)
(* and never copies that terminator.  For the empty string the first byte  *)
(* copied is the terminator itself and the loop test reads past it, where  *)
(* it finds the byte past.                                                 *)
pickle_util_strcpy(src, fresh, past) ==
    LET len == Len(src)
    IN  IF len > 0
        THEN [dest |-> Buffer(len + 1, src \o <<fresh>>), len |-> len,
              overread |-> FALSE]
        ELSE [dest |-> Buffer(1, IF past = NUL THEN <<NUL>> ELSE <<NUL, past>>),
              len |-> 0, overread |-> TRUE]

\* the C string a reader such as printf("%s") sees behind a buffer
StrOf(buf) ==
    LET z == strpbrk(buf.bytes, {NUL})
    IN  IF z = 0 THEN buf.bytes \o <<GARBAGE>> ELSE SubSeq(buf.bytes, 1, z - 1)

\* the terminator of the string is inside the allocation
Terminated(buf) ==
    LET z == strpbrk(buf.bytes, {NUL}) IN z # 0 /\ z <= buf.size

\* variant: carriage returns are kept
NotCR_kept(c) == c = c

NotCR(c) == c # "\r"

(* pickle_util_getline(fh, &line, &rlen, mlen) on an open stream without   *)
(* read errors.  f is the file, p the bytes consumed so far, e the         *)
(* end-of-file indicator.  The loop reads bytes up to the first newline or *)
(* the end of the stream (stop), drops carriage returns, and gives up with *)
(* 1 at the first byte it reads while rlen == mlen - 1 already holds.      *)
pickle_util_getline(f, p, e, mlen) ==
    IF e
    THEN [ret |-> -2, line |-> NoLine, rlen |-> 0, pos |-> p, feof |-> e]
    ELSE
    LET rest == From(f, p + 1)
        nl   == strpbrk(rest, {"\n"})
        stop == IF nl = 0 THEN Len(rest) + 1 ELSE nl
        \* rlen when byte j is read is the number of kept bytes before it
        full == {j \in mlen..(stop - 1) :
                    Len(SelectSeq(SubSeq(rest, 1, j - 1), NotCR)) = mlen - 1}
        text == SelectSeq(SubSeq(rest, 1, stop - 1), NotCR)
    IN  IF full # {}
        THEN [ret |-> 1, line |-> NoLine, rlen |-> 0,
              pos |-> p + Min(full), feof |-> FALSE]
        ELSE [ret |-> 0, line |-> text, rlen |-> Len(text),
              pos |-> IF nl = 0 THEN Len(f) ELSE p + nl,
              feof |-> (nl = 0)]

(* pickle_doc_getline(doc, &line)                                          *)
\* variant: the end of the stream is reported as a read error
pickle_doc_getline_eof_error(f, p, e) ==
    LET g == pickle_util_getline(f, p, e, LINEBUF_MAX_LEN)
    IN  IF g.ret # 0
        THEN [err |-> PICKLE_ERROR_FILE, line |-> NoLine,
              msg |-> MSG_READ, pos |-> g.pos, feof |-> g.feof]
        ELSE IF pickle_util_iswtspc(g.line)
             THEN [err |-> PICKLE_PARSED_BLANK, line |-> NoLine,
                   msg |-> NoMsg, pos |-> g.pos, feof |-> g.feof]
             ELSE [err |-> PICKLE_OK, line |-> g.line,
                   msg |-> NoMsg, pos |-> g.pos, feof |-> g.feof]

pickle_doc_getline(f, p, e) ==
    LET g == pickle_util_getline(f, p, e, LINEBUF_MAX_LEN)
    IN  IF g.ret # 0
        THEN IF g.ret = -2
             THEN [err |-> PICKLE_FINISHED_PARSING, line |-> NoLine,
                   msg |-> NoMsg, pos |-> g.pos, feof |-> g.feof]
             ELSE [err |-> PICKLE_ERROR_FILE, line |-> NoLine,
                   msg |-> MSG_READ, pos |-> g.pos, feof |-> g.feof]
        ELSE IF pickle_util_iswtspc(g.line)
             THEN [err |-> PICKLE_PARSED_BLANK, line |-> NoLine,
                   msg |-> NoMsg, pos |-> g.pos, feof |-> g.feof]
             ELSE [err |-> PICKLE_OK, line |-> g.line,
                   msg |-> NoMsg, pos |-> g.pos, feof |-> g.feof]

----------------------------------------------------------------------------
(* Record parsers.  msg is the message handed to pickle_error_msg_set,     *)
(* NoMsg if none; prop and cat are the record stored through the out       *)
(* parameter, NoRecord if the call leaves no live record behind.           *)

NoRecord == [null |-> TRUE]

(* pickle_property_parse(line, &prop)                                      *)
pickle_property_parse(line, after, fresh) ==
    IF CharAt(line, 1) = "-"
    THEN IF IsTerminator(line)
         THEN [err |-> PICKLE_FINISHED_PARSING, msg |-> NoMsg,
               prop |-> NoRecord]
         ELSE [err |-> PICKLE_ERROR_PARSING, msg |-> MSG_PROP_DASH,
               prop |-> NoRecord]
    ELSE IF CharAt(line, 1) = ":"
    THEN [err |-> PICKLE_ERROR_PARSING, msg |-> MSG_PROP_COLON,
          prop |-> NoRecord]
    ELSE
    LET cur == strpbrk(line, {":"})
    IN  IF cur = 0
        THEN [err |-> PICKLE_ERROR_PARSING, msg |-> MSG_PROP_NOSEP,
              prop |-> NoRecord]
        ELSE
        LET name == pickle_util_strstrcpy(line, 1, cur - 1, after).dest
            val  == cur + strspn(From(line, cur), {":"} \cup VALID_WHITESPACE)
        IN  IF CharAt(line, val) = ""
            THEN [err |-> PICKLE_ERROR_PARSING, msg |-> MSG_PROP_NOVAL,
                  prop |-> NoRecord]
            ELSE [err |-> PICKLE_OK, msg |-> NoMsg,
                  prop |-> [name  |-> name,
                            value |-> pickle_util_strcpy(From(line, val),
                                                         fresh, NUL).dest]]

(* pickle_category_parse(line, &cat)                                       *)
pickle_category_parse(line, after) ==
    IF CharAt(line, 1) = ":"
    THEN [err |-> PICKLE_ERROR_PARSING, msg |-> MSG_CAT_COLON,
          cat |-> NoRecord]
    ELSE
    LET cur == strpbrk(line, {":"})
    IN  IF cur = 0
        THEN [err |-> PICKLE_ERROR_PARSING, msg |-> MSG_CAT_NOSEP,
              cat |-> NoRecord]
        ELSE [err |-> PICKLE_OK, msg |-> NoMsg,
              cat |-> [name |-> pickle_util_strstrcpy(line, 1, cur - 1,
                                                      after).dest]]

(* pickle_parser_iscat(line), for a line of at least one byte              *)
pickle_parser_iscat(line) == CharAt(line, Len(line)) = ":"

----------------------------------------------------------------------------
(* Input files.  A generated file is a sequence of at most MaxLines raw    *)
(* lines of LineSet joined by newlines, with or without a final newline.   *)
(* LongFiles puts an over-long line first, inside the header and inside    *)
(* the body, with lines after it.                                          *)

\* the shortest line the reader rejects: LINEBUF_MAX_LEN kept bytes
LongLine == [i \in 1..LINEBUF_MAX_LEN |-> "a"]

LineSet ==
    { Str("a: b"), Str("b:\r: a:"), Str(""), Str(" \t"), Str("---"),
      Str("a:"), Str(":a:") }

RECURSIVE Join(_)
Join(ls) ==
    IF Len(ls) = 0 THEN <<>>
    ELSE IF Len(ls) = 1 THEN ls[1]
    ELSE ls[1] \o <<"\n">> \o Join(Tail(ls))

LineSeqs == UNION {[1..n -> LineSet] : n \in 0..MaxLines}

ExampleBoard == Str("Name: My Board\nAuthor: Jane\n---\nResistors:\n")
ExampleBadCategory == Str("Name: X\n---\n:BadCategory")
ExampleBlanks == Str("\nb: a \n \t\n\na: b\r\n\t\n---\n\nb:\n")
ExampleNote == Str("Name: X\n---\nNote: see datasheet:\nb\n")

LongFiles ==
    {Join(ls) : ls \in
        { <<LongLine>>,
          <<LongLine, Str("a: b"), Str("---"), Str("a:")>>,
          <<Str("a: b"), LongLine, Str("a: b"), Str("---")>>,
          <<Str("---"), LongLine, Str("a:")>>,
          <<Str("a: b"), Str("---"), Str("a:"), LongLine, Str("a:"), Str("")>> }}

\* lines the property parser rejects and lines the body loop passes over
BadHeaderFiles ==
    {Join(ls) : ls \in
        { <<Str("a: b"), Str("-a: b"), Str("a: b"), Str("---")>>,
          <<Str("a: b"), Str("----"), Str("a:")>>,
          <<Str("a: b"), Str("b"), Str("---"), Str("a:")>>,
          <<Str("a: b"), Str(": a"), Str("---")>>,
          <<Str("a: b"), Str("---"), Str("b"), Str("a:"), Str("- a:")>> }}

Files ==
    {Join(ls) : ls \in LineSeqs} \cup {Join(ls) \o <<"\n">> : ls \in LineSeqs}
        \cup LongFiles \cup BadHeaderFiles
        \cup {ExampleBoard, ExampleBadCategory, ExampleBlanks, ExampleNote}

\* what a byte the program did not write may hold
Bytes == {NUL, GARBAGE}

(* The allocator of a run: after is what is found in the byte that follows *)
(* an allocation once the neighbouring chunk is in use, fresh is what a    *)
(* new allocation holds.                                                   *)
Heaps == [after : Bytes, fresh : Bytes]

\* what a read of the line behind a NULL pointer may find
JunkLines == {Str("---"), Str("-"), Str("?"), Str("?: ?")}

----------------------------------------------------------------------------
(* The document: pickle_doc_new, pickle_doc_fopen, pickle_doc_parse.       *)

\* pickle_doc_new() and the file the caller is about to name
Init ==
    /\ file \in Files
    /\ fh = "NULL"
    /\ pos = 0
    /\ feof = FALSE
    /\ properties = <<>>
    /\ categories = <<>>
    /\ components = <<>>
    /\ pc = "new"
    /\ err = PICKLE_OK
    /\ errmsg = NoMsg
    /\ nread = 0
    /\ lastline = NoLine
    /\ ub = 0
    /\ heap \in Heaps
    /\ pline = <<>>
    /\ pres = [op |-> "none"]
    /\ maxlen = LINEBUF_MAX_LEN
    /\ calls = 0
    /\ fname = "NULL"

\* pickle_doc_fopen(doc, fname, "r") on an existing file
pickle_doc_fopen ==
    /\ pc = "new"
    /\ fh = "NULL"
    /\ fh' = "OPEN"
    /\ pos' = 0
    /\ feof' = FALSE
    /\ pc' = "opened"
    /\ fname' = "LIVE"
    /\ UNCHANGED <<calls, maxlen, file, properties, categories, components, err, errmsg,
                   nread, lastline, ub, heap, pline, pres>>

\* pickle_doc_property_add(doc, prop)
\* variant: the new record is put in front
pickle_doc_property_add_front(props, prop) == <<prop>> \o props

pickle_doc_property_add(props, prop) == Append(props, prop)

\* pickle_doc_category_add(doc, cat)
pickle_doc_category_add(cats, cat) == Append(cats, cat)

\* pickle_doc_parse: the check of the file handle and the first loop's set-up
ParseStart ==
    /\ calls' = calls + 1
    /\ IF fh = "NULL"
       THEN /\ errmsg' = MSG_NOT_OPEN
            /\ err' = PICKLE_ERROR_FILE
            /\ pc' = "returned"
       ELSE /\ pc' = "header"
            /\ UNCHANGED <<errmsg, err>>
    /\ UNCHANGED <<fname, maxlen, file, fh, pos, feof, properties, categories,
                   components, nread, lastline, ub, heap, pline, pres>>

\* the call of pickle_doc_parse on a new or a just opened document
ParseEnter ==
    /\ pc \in {"new", "opened"}
    /\ ParseStart

\* the first loop from pickle_property_parse on, for the line just read
HeaderParse(line, after, fresh) ==
    LET r == pickle_property_parse(line, after, fresh)
    IN  /\ err' = r.err
        /\ errmsg' = IF r.msg = NoMsg THEN errmsg ELSE r.msg
        /\ properties' = IF Parsed(r.err)
                         THEN pickle_doc_property_add(properties, r.prop)
                         ELSE properties
        /\ pc' = IF IF_PICKLE_ERROR(r.err) THEN "returned"
                 ELSE IF HeaderLoops(r.err) THEN "header"
                 ELSE "body"

\* one iteration of the first loop of pickle_doc_parse on a line of the file
HeaderStep ==
    /\ pc = "header"
    /\ \E g \in {pickle_doc_getline(file, pos, feof)} :
           /\ g.err # PICKLE_FINISHED_PARSING
           /\ pos' = g.pos
           /\ feof' = g.feof
           /\ nread' = nread + 1
           /\ lastline' = g.line
           /\ IF IF_PICKLE_ERROR(g.err)
              THEN /\ err' = g.err
                   /\ errmsg' = g.msg
                   /\ pc' = "returned"
                   /\ UNCHANGED properties
              ELSE IF g.err = PICKLE_PARSED_BLANK
              THEN /\ err' = g.err
                   /\ pc' = IF HeaderLoops(g.err) THEN "header" ELSE "body"
                   /\ UNCHANGED <<errmsg, properties>>
              ELSE HeaderParse(g.line, heap.after, heap.fresh)
    /\ UNCHANGED <<fname, calls, maxlen, file, fh, categories, components, ub, heap, pline, pres>>

(* One iteration of the first loop at the end of the stream:               *)
(* pickle_doc_getline returns PICKLE_FINISHED_PARSING with line == NULL,   *)
(* which is neither an error nor a blank, so pickle_property_parse reads   *)
(* line[0] through the NULL pointer.  The read traps, or it finds some     *)
(* bytes and the iteration goes on with them.                              *)
HeaderNull ==
    /\ pc = "header"
    /\ pickle_doc_getline(file, pos, feof).err = PICKLE_FINISHED_PARSING
    /\ ub' = ub + 1
    /\ lastline' = NoLine
    /\ \/ /\ pc' = "crashed"
          /\ err' = PICKLE_FINISHED_PARSING
          /\ UNCHANGED <<errmsg, properties>>
       \/ /\ ub < MaxGarbage
          /\ \E junk \in JunkLines :
                 HeaderParse(junk, heap.after, heap.fresh)
    /\ UNCHANGED <<fname, calls, maxlen, file, fh, pos, feof, categories, components, nread,
                   heap, pline, pres>>

\* the end of an iteration of the second loop: again, or return PICKLE_OK
BodyEnd(e) ==
    IF BodyLoops(e)
    THEN pc' = "body" /\ err' = e
    ELSE pc' = "returned" /\ err' = PICKLE_OK

\* one iteration of the second loop of pickle_doc_parse, or its exit
BodyStep ==
    /\ pc = "body"
    /\ \E g \in {pickle_doc_getline(file, pos, feof)} :
           /\ pos' = g.pos
           /\ feof' = g.feof
           /\ nread' = IF g.err = PICKLE_FINISHED_PARSING
                       THEN nread ELSE nread + 1
           /\ lastline' = g.line
           /\ IF IF_PICKLE_ERROR(g.err)
              THEN /\ err' = g.err
                   /\ errmsg' = g.msg
                   /\ pc' = "returned"
                   /\ UNCHANGED categories
              ELSE IF g.err = PICKLE_PARSED_BLANK
              THEN /\ BodyEnd(g.err)
                   /\ UNCHANGED <<errmsg, categories>>
              ELSE IF g.err = PICKLE_FINISHED_PARSING
              THEN /\ err' = PICKLE_OK
                   /\ pc' = "returned"
                   /\ UNCHANGED <<errmsg, categories>>
              ELSE IF pickle_parser_iscat(g.line)
              THEN LET r == pickle_category_parse(g.line, heap.after)
                   IN  /\ errmsg' = IF r.msg = NoMsg THEN errmsg ELSE r.msg
                       /\ categories' =
                            IF Parsed(r.err)
                            THEN pickle_doc_category_add(categories, r.cat)
                            ELSE categories
                       /\ IF IF_PICKLE_ERROR(r.err)
                          THEN pc' = "returned" /\ err' = r.err
                          ELSE BodyEnd(r.err)
              ELSE /\ BodyEnd(g.err)
                   /\ UNCHANGED <<errmsg, categories>>
    /\ UNCHANGED <<fname, calls, maxlen, file, fh, properties, components, ub, heap, pline, pres>>

Next ==
    \/ pickle_doc_fopen
    \/ ParseEnter
    \/ HeaderStep
    \/ HeaderNull
    \/ BodyStep

Spec == Init /\ [][Next]_vars

(* The same program with its progress, on files with and without the      *)
(* terminator, a final newline and over-long lines: the program is one     *)
(* sequential thread, so a step that can be taken is taken.                *)
FairFiles ==
    {ExampleBoard, ExampleBadCategory, ExampleBlanks, ExampleNote}
        \cup BadHeaderFiles
        \cup {Str(""), Str("a: b"), Str("a: b\n"), Str("---"), Str("---\n"),
              Str("\n \t\n"), Str("a: b\n---\na:"), Str("a: b\n---\na:\n"),
              Str("a: b\r\n---\r\na:\r\nb\r\n")}
        \cup {Join(<<LongLine>>),
              Join(<<Str("a: b"), Str("---"), Str("a:"), LongLine, Str("a:")>>)}

InitFair == Init /\ file \in FairFiles

SpecFair == InitFair /\ [][Next]_vars /\ WF_vars(Next)

----------------------------------------------------------------------------
(* The document after pickle_doc_parse has returned: it is parsed again    *)
(* without being opened again, or it is destroyed.                         *)

\* a further pickle_doc_parse(doc) after one that returned PICKLE_OK
ParseAgain ==
    /\ pc = "returned"
    /\ err = PICKLE_OK
    /\ calls < MaxParses
    /\ ParseStart

\* free(p) of doc->fname: the states the pointer may be left in, and "TRAP"
\* where the allocator may stop the program (p was freed before)
FreeOf(p) ==
    IF p \in {"NULL", "LIVE"} THEN {IF p = "NULL" THEN "NULL" ELSE "FREED"}
    ELSE {"FREED", "TRAP"}

(* The body of pickle_doc_free(doc), with pickle_doc_fclose(doc) inside.   *)
(* An open handle is closed and set to NULL, the file name is freed and    *)
(* doc->fname keeps its value, the properties are freed and len_properties *)
(* is reset; the categories and the components are left as they are.       *)
(* With doc->fh == NULL the call is fclose(NULL): it traps, or it fails    *)
(* and pickle_doc_free returns PICKLE_ERROR_FILE.                          *)
DocFree ==
    /\ IF fh = "OPEN"
       THEN /\ fh' = "NULL"
            /\ \E q \in FreeOf(fname) :
                  IF q = "TRAP"
                  THEN pc' = "crashed" /\ UNCHANGED <<fname, properties>>
                  ELSE /\ fname' = q
                       /\ properties' = <<>>
                       /\ pc' = "freed"
            /\ UNCHANGED errmsg
       ELSE /\ \/ pc' = "crashed" /\ UNCHANGED errmsg
               \/ pc' = "free_failed" /\ errmsg' = MSG_CLOSE
            /\ UNCHANGED <<fh, fname, properties>>
    /\ UNCHANGED <<calls, maxlen, file, pos, feof, categories, components,
                   err, nread, lastline, ub, heap, pline, pres>>

\* pickle_doc_free(doc) once pickle_doc_parse has returned
pickle_doc_free ==
    /\ pc = "returned"
    /\ DocFree

NextLife ==
    \/ Next
    \/ ParseAgain
    \/ pickle_doc_free

SpecLife == Init /\ [][NextLife]_vars

----------------------------------------------------------------------------
(* The calls of the library on one document in any order: pickle_doc_fopen *)
(* that succeeds or fails, pickle_doc_parse, pickle_doc_fclose and         *)
(* pickle_doc_free, each made when the call before it has returned.        *)

CallFiles ==
    {ExampleBoard, ExampleBadCategory, ExampleNote, Str(""), Str("a: b\n")}

InitCalls == Init /\ file \in CallFiles

\* the values of pc at which the caller is between two calls
Idle ==
    {"new", "opened", "reopened", "open_failed", "returned", "closed",
     "close_failed", "freed", "free_failed"}

\* realloc(p, n) of doc->fname: the states the pointer may be left in, and
\* "TRAP" where the allocator may stop the program (p was freed before)
ReallocOf(p) ==
    IF p \in {"NULL", "LIVE"} THEN {"LIVE"} ELSE {"STALE", "TRAP"}

\* pickle_doc_fopen(doc, fname, "r") on a file that fopen cannot open
OpenFails ==
    /\ pc \in Idle
    /\ IF fh = "OPEN"
       THEN /\ errmsg' = MSG_ALREADY_OPEN
            /\ pc' = "open_failed"
            /\ UNCHANGED fname
       ELSE \E q \in ReallocOf(fname) :
               IF q = "TRAP"
               THEN pc' = "crashed" /\ UNCHANGED <<fname, errmsg>>
               ELSE /\ fname' = q
                    /\ errmsg' = MSG_OPEN
                    /\ pc' = "open_failed"
    /\ UNCHANGED <<calls, maxlen, file, fh, pos, feof, properties, categories,
                   components, err, nread, lastline, ub, heap, pline, pres>>

\* pickle_doc_fopen(doc, fname, "r") on a document that is not new
Reopen ==
    /\ pc \in Idle \ {"new"}
    /\ IF fh = "OPEN"
       THEN /\ errmsg' = MSG_ALREADY_OPEN
            /\ pc' = "open_failed"
            /\ UNCHANGED <<fname, fh, pos, feof>>
       ELSE \E q \in ReallocOf(fname) :
               IF q = "TRAP"
               THEN pc' = "crashed" /\ UNCHANGED <<fname, errmsg, fh, pos, feof>>
               ELSE /\ fname' = q
                    /\ fh' = "OPEN"
                    /\ pos' = 0
                    /\ feof' = FALSE
                    /\ pc' = "reopened"
                    /\ UNCHANGED errmsg
    /\ UNCHANGED <<calls, maxlen, file, properties, categories, components,
                   err, nread, lastline, ub, heap, pline, pres>>

\* pickle_doc_parse(doc) on a document that is neither new nor just opened
ParseIdle ==
    /\ pc \in Idle \ {"new", "opened"}
    /\ calls < MaxParses
    /\ ParseStart

(* pickle_doc_fclose(doc): fclose(doc->fh) and doc->fh = NULL.  With       *)
(* doc->fh == NULL the call is fclose(NULL): it traps, or it fails and     *)
(* pickle_doc_fclose returns PICKLE_ERROR_FILE.                            *)
pickle_doc_fclose ==
    /\ pc \in Idle
    /\ IF fh = "OPEN"
       THEN /\ fh' = "NULL"
            /\ pc' = "closed"
            /\ UNCHANGED errmsg
       ELSE /\ \/ pc' = "crashed" /\ UNCHANGED errmsg
               \/ pc' = "close_failed" /\ errmsg' = MSG_CLOSE
            /\ UNCHANGED fh
    /\ UNCHANGED <<fname, calls, maxlen, file, pos, feof, properties,
                   categories, components, err, nread, lastline, ub, heap,
                   pline, pres>>

\* pickle_doc_free(doc) between any two calls
FreeIdle ==
    /\ pc \in Idle
    /\ DocFree

NextCalls ==
    \/ Next
    \/ OpenFails
    \/ Reopen
    \/ ParseIdle
    \/ pickle_doc_fclose
    \/ FreeIdle

SpecCalls == InitCalls /\ [][NextCalls]_vars

----------------------------------------------------------------------------
(* Two documents, one after the other, on the same file: when the parse of *)
(* the first has returned, its outcome is kept in pres and a second        *)
(* document is made with pickle_doc_new.  The allocator is not in the      *)
(* state it was in for the first document.                                 *)

TwiceFiles ==
    {Join(ls) : ls \in UNION {[1..n -> LineSet] : n \in 0..(MaxLines - 1)}}
        \cup {ExampleBoard, ExampleBlanks}

InitTwice == Init /\ file \in TwiceFiles

\* doc = pickle_doc_new() for the second document
SecondDocument ==
    /\ pc = "returned"
    /\ pres.op = "none"
    /\ pres' = [op |-> "first", fh |-> fh, err |-> err,
                properties |-> properties, categories |-> categories,
                components |-> components]
    /\ fh' = "NULL"
    /\ pos' = 0
    /\ feof' = FALSE
    /\ properties' = <<>>
    /\ categories' = <<>>
    /\ components' = <<>>
    /\ pc' = "new"
    /\ err' = PICKLE_OK
    /\ nread' = 0
    /\ lastline' = NoLine
    /\ ub' = 0
    /\ calls' = 0
    /\ heap' \in Heaps
    /\ fname' = "NULL"
    /\ UNCHANGED <<maxlen, file, errmsg, pline>>

NextTwice ==
    \/ Next
    \/ SecondDocument

SpecTwice == InitTwice /\ [][NextTwice]_vars

----------------------------------------------------------------------------
(* Direct calls of the record parsers and of the classifier on one line.   *)

Alphabet == {"a", "b", ":", "-", " ", "\t"}

ParserLines == UNION {[1..n -> Alphabet] : n \in 0..MaxLineLen}

InitLine ==
    /\ pline \in ParserLines
    /\ pres = [op |-> "none"]
    /\ heap \in Heaps
    /\ file = <<>>
    /\ fh = "NULL"
    /\ pos = 0
    /\ feof = FALSE
    /\ properties = <<>>
    /\ categories = <<>>
    /\ components = <<>>
    /\ pc = "new"
    /\ err = PICKLE_OK
    /\ errmsg = NoMsg
    /\ nread = 0
    /\ lastline = NoLine
    /\ ub = 0
    /\ maxlen = LINEBUF_MAX_LEN
    /\ calls = 0
    /\ fname = "NULL"

\* err = pickle_property_parse(pline, &prop)
CallPropertyParse ==
    /\ pres.op = "none"
    /\ LET r == pickle_property_parse(pline, heap.after, heap.fresh)
       IN  /\ pres' = [op |-> "property", err |-> r.err, msg |-> r.msg,
                       prop |-> r.prop]
           /\ errmsg' = IF r.msg = NoMsg THEN errmsg ELSE r.msg
    /\ UNCHANGED <<fname, calls, maxlen, file, fh, pos, feof, properties, categories, components,
                   pc, err, nread, lastline, ub, heap, pline>>

\* err = pickle_category_parse(pline, &cat)
CallCategoryParse ==
    /\ pres.op = "none"
    /\ LET r == pickle_category_parse(pline, heap.after)
       IN  /\ pres' = [op |-> "category", err |-> r.err, msg |-> r.msg,
                       cat |-> r.cat]
           /\ errmsg' = IF r.msg = NoMsg THEN errmsg ELSE r.msg
    /\ UNCHANGED <<fname, calls, maxlen, file, fh, pos, feof, properties, categories, components,
                   pc, err, nread, lastline, ub, heap, pline>>

(* pickle_parser_iscat(pline).  For the empty line the function reads      *)
(* line[strlen(line) - 1], a byte outside the string, and answers with     *)
(* whatever it finds there.                                                *)
CallIsCat ==
    /\ pres.op = "none"
    /\ \E b \in BOOLEAN :
          /\ pline # <<>> => b = pickle_parser_iscat(pline)
          /\ pres' = [op |-> "iscat", is |-> b]
    /\ UNCHANGED <<fname, calls, maxlen, file, fh, pos, feof, properties, categories, components,
                   pc, err, errmsg, nread, lastline, ub, heap, pline>>

NextLine ==
    \/ CallPropertyParse
    \/ CallCategoryParse
    \/ CallIsCat

SpecLine == InitLine /\ [][NextLine]_vars

----------------------------------------------------------------------------
(* Direct calls of the two copy routines on one source string.             *)

\* len = pickle_util_strcpy(&dest, pline) with dest == NULL before the call;
\* past is the byte that follows the terminator of pline
CallStrcpy ==
    /\ pres.op = "none"
    /\ \E past \in Bytes :
          LET r == pickle_util_strcpy(pline, heap.fresh, past)
          IN  pres' = [op |-> "strcpy", dest |-> r.dest, len |-> r.len,
                       overread |-> r.overread]
    /\ UNCHANGED <<fname, calls, maxlen, file, fh, pos, feof, properties,
                   categories, components, pc, err, errmsg, nread, lastline,
                   ub, heap, pline>>

\* len = pickle_util_strstrcpy(&dest, pline + first - 1, pline + last - 1)
\* with start <= end inside pline
CallStrstrcpy ==
    /\ pres.op = "none"
    /\ \E first \in 1..Len(pline) : \E last \in first..Len(pline) :
          LET r == pickle_util_strstrcpy(pline, first, last, heap.after)
          IN  pres' = [op |-> "strstrcpy", dest |-> r.dest, len |-> r.len,
                       first |-> first, last |-> last]
    /\ UNCHANGED <<fname, calls, maxlen, file, fh, pos, feof, properties,
                   categories, components, pc, err, errmsg, nread, lastline,
                   ub, heap, pline>>

NextCopy ==
    \/ CallStrcpy
    \/ CallStrstrcpy

SpecCopy == InitLine /\ [][NextCopy]_vars

----------------------------------------------------------------------------
(* The line reader alone: successive calls of pickle_util_getline on one   *)
(* stream, with a small mlen on short files and with LINEBUF_MAX_LEN on    *)
(* files around the limit.  mlen is at least 1.                            *)

ReadAlphabet == {"a", " ", "\r", "\n"}

ReadLens == {1, 2, 3}

ShortFiles == UNION {[1..n -> ReadAlphabet] : n \in 0..MaxFileLen}

\* n bytes a
Run(n) == [i \in 1..n |-> "a"]

\* lines of mlen - 2, mlen - 1 and mlen bytes, with and without CRs
LimitFiles ==
    LET m == LINEBUF_MAX_LEN
    IN  { Run(m - 2) \o Str("\r\na\n"),
          Run(m - 1),
          Run(m - 1) \o Str("\na"),
          Run(m - 1) \o Str("\r\na\n"),
          Run(m - 1) \o Str("\r"),
          Str("\ra\r") \o Run(m - 2) \o Str("\n\n"),
          Run(m),
          Run(m) \o Str("\na\n"),
          Str("a\n") \o Run(m) \o Str("aa\r\n \n"),
          Run(m - 1) \o Str("\r\ra a\n") }

InitRead ==
    /\ \/ file \in ShortFiles /\ maxlen \in ReadLens
       \/ file \in LimitFiles /\ maxlen = LINEBUF_MAX_LEN
    /\ fh = "OPEN"
    /\ pos = 0
    /\ feof = FALSE
    /\ properties = <<>>
    /\ categories = <<>>
    /\ components = <<>>
    /\ pc = "opened"
    /\ err = PICKLE_OK
    /\ errmsg = NoMsg
    /\ nread = 0
    /\ lastline = NoLine
    /\ ub = 0
    /\ heap = [after |-> NUL, fresh |-> NUL]
    /\ pline = <<>>
    /\ pres = [op |-> "none"]
    /\ calls = 0
    /\ fname = "LIVE"

(* ret = pickle_util_getline(fh, &line, &rlen, mlen); pres keeps what the  *)
(* call returned and the state of the stream it started from               *)
CallGetline ==
    /\ nread < MaxReads
    /\ LET g == pickle_util_getline(file, pos, feof, maxlen)
       IN  /\ pos' = g.pos
           /\ feof' = g.feof
           /\ lastline' = g.line
           /\ pres' = [op |-> "getline", ret |-> g.ret, line |-> g.line,
                       rlen |-> g.rlen, at |-> pos, eof |-> feof]
    /\ nread' = nread + 1
    /\ UNCHANGED <<fname, calls, maxlen, file, fh, properties, categories, components, pc,
                   err, errmsg, ub, heap, pline>>

NextRead == CallGetline

SpecRead == InitRead /\ [][NextRead]_vars

----------------------------------------------------------------------------
(* The vocabulary of the claims: the lines of a file and their kinds,      *)
(* defined from the text alone.                                            *)

RECURSIVE SplitLines(_)
SplitLines(s) ==
    LET nls == {i \in 1..Len(s) : s[i] = "\n"}
    IN  IF nls = {} THEN <<s>>
        ELSE <<SubSeq(s, 1, Min(nls) - 1)>> \o SplitLines(From(s, Min(nls) + 1))

\* the lines of a file as a reader sees them: without newlines and CRs
FileLines(f) ==
    LET raw == SplitLines(f)
    IN  [i \in 1..Len(raw) |-> SelectSeq(raw[i], NotCR)]

\* the number of bytes of f up to and including the newline of its k-th line
EndOfLine(f, k) ==
    LET nls == {i \in 1..Len(f) : f[i] = "\n"}
    IN  IF Cardinality(nls) < k THEN Len(f)
        ELSE CHOOSE i \in nls : Cardinality({j \in nls : j <= i}) = k

IsBlank(l) == \A i \in 1..Len(l) : l[i] \in {" ", "\t"}

\* index of the first colon of l, 0 if it has none
Colon(l) ==
    LET cs == {i \in 1..Len(l) : l[i] = ":"}
    IN  IF cs = {} THEN 0 ELSE Min(cs)

\* index of the first byte after the first colon that is no colon, space or
\* tab; 0 if there is none
ValueStart(l) ==
    LET vs == {j \in (Colon(l) + 1)..Len(l) : l[j] \notin {":", " ", "\t"}}
    IN  IF Colon(l) = 0 \/ vs = {} THEN 0 ELSE Min(vs)

IsPropertyLine(l) ==
    /\ Len(l) > 0
    /\ Len(l) < LINEBUF_MAX_LEN
    /\ l[1] \notin {"-", ":"}
    /\ ValueStart(l) # 0

NameText(l) == SubSeq(l, 1, Colon(l) - 1)

ValueText(l) == From(l, ValueStart(l))

IsCategoryLine(l) ==
    /\ ~IsBlank(l)
    /\ Len(l) < LINEBUF_MAX_LEN
    /\ l[Len(l)] = ":"

\* index of the first line that is exactly ---, 0 if there is none
Terminator(ls) ==
    LET ts == {i \in 1..Len(ls) : ls[i] = Str("---")}
    IN  IF ts = {} THEN 0 ELSE Min(ts)

\* the lines before the terminator, or before line k if that comes first
HeaderLines(ls, k) ==
    LET t == Terminator(ls)
        n == IF t # 0 /\ t < k THEN t - 1 ELSE k - 1
    IN  SubSeq(ls, 1, n)

\* the lines after the terminator
BodyLines(ls) == SubSeq(ls, Terminator(ls) + 1, Len(ls))

\* the terminator is among the lines pickle_doc_parse has read
TerminatorRead ==
    LET t == Terminator(FileLines(file)) IN t # 0 /\ t <= nread

\* the record the property parser makes of a line in this run
PropertyOf(l) == pickle_property_parse(l, heap.after, heap.fresh).prop

\* the record the category parser makes of a line in this run
CategoryOf(l) == pickle_category_parse(l, heap.after).cat

NotBlank(l) == ~IsBlank(l)

PropertiesOf(ls) ==
    LET pl == SelectSeq(ls, NotBlank)
    IN  [i \in 1..Len(pl) |-> PropertyOf(pl[i])]

CategoriesOf(ls) ==
    LET cl == SelectSeq(ls, IsCategoryLine)
    IN  [i \in 1..Len(cl) |-> CategoryOf(cl[i])]

\* pickle_doc_parse has returned from a call on an opened document in which
\* every line it parsed was a line of the file
Returned == pc = "returned" /\ fh = "OPEN" /\ ub = 0

----------------------------------------------------------------------------
(* Properties of pickle_doc_parse (specification Spec) and of the record   *)
(* parsers (specification SpecLine).                                       *)

\* the text of a stored name or value, read as a C string
NameOf(rec) == StrOf(rec.name)

ValueOf(rec) == StrOf(rec.value)

\* a header of property lines, the terminator, then category lines only
WellFormed(f) ==
    LET ls == FileLines(f)
        t  == Terminator(ls)
    IN  /\ t # 0
        /\ \A i \in 1..(t - 1) : IsPropertyLine(ls[i])
        /\ \A i \in (t + 1)..Len(ls) :
               \/ IsCategoryLine(ls[i]) /\ ls[i][1] # ":"
               \/ i = Len(ls) /\ ls[i] = <<>>

\* C1: on a well-formed file pickle_doc_parse returns PICKLE_OK, the document
\* holds the name and the value of every header line in order and the name of
\* every category line in order, and it holds no component; the board file of
\* two properties and the category Resistors is one such file.
C1_WellFormedParsed ==
    (Returned /\ WellFormed(file)) =>
        LET ls == FileLines(file)
            hl == HeaderLines(ls, Len(ls))
            cl == SelectSeq(BodyLines(ls), IsCategoryLine)
        IN  /\ err = PICKLE_OK
            /\ Len(properties) = Len(hl)
            /\ \A i \in 1..Len(hl) :
                   /\ NameOf(properties[i]) = NameText(hl[i])
                   /\ ValueOf(properties[i]) = ValueText(hl[i])
            /\ Len(categories) = Len(cl)
            /\ \A i \in 1..Len(cl) :
                   NameOf(categories[i]) = NameText(cl[i])
            /\ components = <<>>
            /\ file = ExampleBoard =>
                   /\ NameOf(properties[1]) = Str("Name")
                   /\ ValueOf(properties[1]) = Str("My Board")
                   /\ NameOf(properties[2]) = Str("Author")
                   /\ ValueOf(properties[2]) = Str("Jane")
                   /\ NameOf(categories[1]) = Str("Resistors")

\* a header of property lines and blank lines, closed by the terminator
HeaderOfProperties(f) ==
    LET ls == FileLines(f)
        t  == Terminator(ls)
    IN  /\ t # 0
        /\ \A i \in 1..(t - 1) : IsBlank(ls[i]) \/ IsPropertyLine(ls[i])

\* C2: once the header of N property lines, with blank lines anywhere between
\* them, has been parsed, the property sequence has length N and its i-th
\* element is the record parsed from the i-th property line.
C2_HeaderOrder ==
    (pc \in {"body", "returned"} /\ fh = "OPEN" /\ ub = 0
        /\ HeaderOfProperties(file)) =>
        LET ls == FileLines(file)
            pl == SelectSeq(HeaderLines(ls, Len(ls)), IsPropertyLine)
        IN  /\ Len(properties) = Len(pl)
            /\ \A i \in 1..Len(pl) : properties[i] = PropertyOf(pl[i])

\* two property lines among five blank lines were parsed into two records
C2_Witness ==
    /\ pc = "returned"
    /\ file = ExampleBlanks
    /\ Len(properties) = 2
    /\ properties[1] # properties[2]

\* C3: on a line that starts with neither - nor :, has a colon and has a value
\* after it, pickle_property_parse makes a record whose name is the text before
\* the first colon and whose value is the text after it without the leading
\* colons, spaces and tabs.
C3_PropertyFields ==
    (pres.op = "property" /\ IsPropertyLine(pline)) =>
        /\ pres.err = PICKLE_OK
        /\ NameOf(pres.prop) = NameText(pline)
        /\ ValueOf(pres.prop) = ValueText(pline)

\* C4: the file of Name: X, the terminator and :BadCategory fails with the
\* invalid-name parsing error, and pickle_doc_parse never goes on in the body
\* after a non-blank line that starts with a colon.
C4_ColonLineAborts ==
    /\ (Returned /\ file = ExampleBadCategory) =>
           err = PICKLE_ERROR_PARSING /\ errmsg = MSG_CAT_COLON
    /\ (pc = "body" /\ ub = 0 /\ nread >= 1 /\ TerminatorRead
            /\ Terminator(FileLines(file)) < nread) =>
           LET l == FileLines(file)[nread]
           IN  IsBlank(l) \/ l[1] # ":"

\* the error codes go with the messages of the functions that report them
ReportedBy ==
    CASE err = PICKLE_ERROR_FILE -> errmsg \in {MSG_NOT_OPEN, MSG_READ}
      [] err = PICKLE_ERROR_PARSING ->
             errmsg \in {MSG_PROP_DASH, MSG_PROP_COLON, MSG_PROP_NOSEP,
                         MSG_PROP_NOVAL, MSG_CAT_COLON, MSG_CAT_NOSEP}
      [] OTHER -> FALSE

\* C5: pickle_doc_parse never goes on with a code above PICKLE_OK; when it has
\* returned such a code, it is the code of the function that reported the
\* error, nothing of the file after the failing line has been read, and there
\* is at most one record for each non-blank line before the failing one.
C5_FailFast ==
    /\ pc \in {"header", "body"} => err <= PICKLE_OK
    /\ (Returned /\ err > PICKLE_OK) =>
           /\ ReportedBy
           /\ nread >= 1
           /\ pos <= EndOfLine(file, nread)
           /\ Len(properties) + Len(categories) + Len(components)
                  <= Len(SelectSeq(SubSeq(FileLines(file), 1, nread - 1),
                                   NotBlank))

\* a parse failed on the second line or later and left lines unread
C5_Witness ==
    /\ Returned
    /\ err > PICKLE_OK
    /\ nread >= 2
    /\ nread < Len(FileLines(file))
    /\ pos < Len(file)
    /\ Len(properties) >= 1

\* C6: when pickle_doc_parse has failed on line k, the property sequence is
\* exactly the records of the property lines before line k, in order, and the
\* record of the failing line is not in it.
C6_FailureKeepsPrefix ==
    (Returned /\ err > PICKLE_OK) =>
        LET hl == HeaderLines(FileLines(file), nread)
        IN  /\ properties = PropertiesOf(hl)
            /\ Len(properties) = Len(SelectSeq(hl, NotBlank))
            /\ \A i \in 1..Len(properties) : properties[i] # NoRecord

\* the third property line of a header had no value
C6_Witness ==
    /\ Returned
    /\ err = PICKLE_ERROR_PARSING
    /\ errmsg = MSG_PROP_NOVAL
    /\ nread = 3
    /\ Len(properties) = 2

\* C7: the phases follow one another as header, body, done and never go back;
\* a category or a component is appended only in the body, after the
\* terminator was read, and a property only in the header.
C7_PhaseOrder ==
    [][ /\ pc = "header" => pc' \in {"header", "body", "returned", "crashed"}
        /\ pc = "body" => pc' \in {"body", "returned"}
        /\ pc \in {"returned", "crashed"} => pc' = pc
        /\ (pc = "header" /\ pc' = "body" /\ ub' = 0) =>
               lastline' = Str("---")
        /\ (categories' # categories \/ components' # components) =>
               pc = "body" /\ TerminatorRead
        /\ properties' # properties => pc = "header" ]_vars

\* a line of the shape of a property was read after the terminator, and the
\* document has a property from before it and a category from after it
C7_Witness ==
    /\ Returned
    /\ TerminatorRead
    /\ \E i \in (Terminator(FileLines(file)) + 1)..nread :
           IsPropertyLine(FileLines(file)[i])
    /\ Len(properties) >= 1
    /\ Len(categories) >= 1

\* C8: in the body the end of the stream ends pickle_doc_parse with PICKLE_OK,
\* and when it has returned PICKLE_OK the whole file was read and every
\* category line of the body is in the category sequence, in order.
C8_BodyEndOfInput ==
    /\ [][(pc = "body" /\ feof) =>
              /\ pc' = "returned"
              /\ err' = PICKLE_OK
              /\ categories' = categories]_vars
    /\ []((Returned /\ err = PICKLE_OK) =>
              /\ feof
              /\ pos = Len(file)
              /\ TerminatorRead
              /\ categories = CategoriesOf(BodyLines(FileLines(file))))

\* a body of two category lines, the last one without a newline
C8_Witness ==
    /\ Returned
    /\ err = PICKLE_OK
    /\ Len(categories) = 2
    /\ file[Len(file)] = ":"

\* C9: a non-blank line that ends in a colon and does not start with one is
\* classified as a category, and pickle_category_parse makes of it a record
\* whose name is the text before the first colon.
C9_CategoryName ==
    LET pre == IsCategoryLine(pline) /\ pline[1] # ":"
    IN  /\ (pres.op = "iscat" /\ pre) => pres.is
        /\ (pres.op = "category" /\ pre) =>
               /\ pres.err = PICKLE_OK
               /\ NameOf(pres.cat) = NameText(pline)

\* C10: pickle_property_parse returns PICKLE_FINISHED_PARSING and no record
\* for the line ---, and the invalid-name parsing error and no record for
\* every other line that starts with a dash.
C10_DashLines ==
    (pres.op = "property" /\ Len(pline) >= 1 /\ pline[1] = "-") =>
        IF pline = <<"-", "-", "-">>
        THEN /\ pres.err = PICKLE_FINISHED_PARSING
             /\ pres.msg = NoMsg
             /\ pres.prop = NoRecord
        ELSE /\ pres.err = PICKLE_ERROR_PARSING
             /\ pres.msg = MSG_PROP_DASH
             /\ pres.prop = NoRecord

\* the property parser was called on the terminator line
C10_Witness ==
    /\ pres.op = "property"
    /\ pline = <<"-", "-", "-">>
    /\ pres.err = PICKLE_FINISHED_PARSING

C13_BlankProperty ==
    (pres.op = "property" /\ IsBlank(pline)) =>
        /\ pres.err = PICKLE_PARSED_BLANK
        /\ pres.msg = NoMsg
        /\ pres.prop = NoRecord

\* C14: in the body every non-blank line that is no category goes to
\* pickle_parse_component and the outcome is acted on: a component is appended
\* or pickle_doc_parse returns the parser's error, PICKLE_ERROR_NOT_IMPL; the
\* line is never passed over.
C14_ComponentLines ==
    [][(pc = "body" /\ nread' = nread + 1 /\ lastline' # NoLine
            /\ ~pickle_parser_iscat(lastline')) =>
           \/ Len(components') = Len(components) + 1
           \/ pc' = "returned" /\ err' = PICKLE_ERROR_NOT_IMPL]_vars

----------------------------------------------------------------------------
(* Properties of pickle_util_getline (specification SpecRead).             *)

\* the bytes of f after offset at, up to the next newline or the end
RawLine(f, at) ==
    LET r   == SubSeq(f, at + 1, Len(f))
        nls == {i \in 1..Len(r) : r[i] = "\n"}
    IN  IF nls = {} THEN r ELSE SubSeq(r, 1, Min(nls) - 1)

\* the offset just past the newline of that line, or the end of f
PastLine(f, at) ==
    LET nls == {i \in (at + 1)..Len(f) : f[i] = "\n"}
    IN  IF nls = {} THEN Len(f) ELSE Min(nls)

IsContent(c) == c # "\r"

\* a line without its carriage returns
Content(l) == SelectSeq(l, IsContent)

\* C15: when the line at the stream's position has more content than fits in
\* LINEBUF_MAX_LEN bytes, pickle_util_getline returns 1 and no line, and the
\* stream is left just past the newline of that line, or at the end of the
\* stream if the line has none.
C15_TooLongSkipsLine ==
    (pres.op = "getline" /\ maxlen = LINEBUF_MAX_LEN /\ ~pres.eof
        /\ Len(Content(RawLine(file, pres.at))) >= maxlen) =>
        /\ pres.ret = 1
        /\ pres.line = NoLine
        /\ pres.rlen = 0
        /\ pos = PastLine(file, pres.at)

\* C16: a call of pickle_util_getline on a stream that has no byte left
\* returns the end-of-input code -2 and no line.
C16_EndOfInputSignal ==
    (pres.op = "getline" /\ pres.at = Len(file)) =>
        /\ pres.ret = -2
        /\ pres.line = NoLine

\* C17: whenever pickle_util_getline returns a line, it is the bytes from the
\* stream's position to the next newline or the end of the stream without
\* their carriage returns, all other bytes in order, and the stream is left
\* past that line; every line shorter than mlen is returned, a line of spaces
\* included.
C17_LineContent ==
    pres.op = "getline" =>
        /\ pres.ret = 0 =>
               /\ pres.line = Content(RawLine(file, pres.at))
               /\ pres.rlen = Len(pres.line)
               /\ pos = PastLine(file, pres.at)
        /\ (~pres.eof /\ Len(RawLine(file, pres.at)) < maxlen) =>
               pres.ret = 0

\* a line of two bytes and a carriage return between them was returned
C17_Witness ==
    /\ pres.op = "getline"
    /\ pres.ret = 0
    /\ RawLine(file, pres.at) = <<"a", "\r", " ">>
    /\ pres.line = <<"a", " ">>

----------------------------------------------------------------------------
(* Properties of the document's life (specification SpecLife).             *)

\* C18: when pickle_doc_free has returned PICKLE_OK on a parsed document, the
\* file handle is NULL and the document holds no property, no category and
\* no component.
C18_FreeReleasesAll ==
    pc = "freed" =>
        /\ fh = "NULL"
        /\ Len(properties) = 0
        /\ Len(categories) = 0
        /\ Len(components) = 0

\* C19: a pickle_doc_parse call on a document on which pickle_doc_parse has
\* returned PICKLE_OK, the stream not opened again, appends no record to any
\* collection and does not break the program.
C19_DoneIsTerminal ==
    [][calls >= 2 =>
           /\ pc' # "crashed"
           /\ properties' = properties
           /\ categories' = categories
           /\ components' = components]_vars

----------------------------------------------------------------------------
(* Properties of two parses of one file (specification SpecTwice).         *)

\* the names and the values of a property sequence, read as C strings
PropertyTexts(ps) == [i \in 1..Len(ps) |-> <<NameOf(ps[i]), ValueOf(ps[i])>>]

\* the names of a category sequence, read as C strings
CategoryTexts(cs) == [i \in 1..Len(cs) |-> NameOf(cs[i])]

\* C20: two fresh documents opened on the same file and parsed give the same
\* return code and the same sequences of properties, of categories and of
\* components.
C20_Deterministic ==
    (pres.op = "first" /\ pres.fh = "OPEN" /\ fh = "OPEN"
        /\ pc \in {"returned", "crashed"}) =>
        /\ pc = "returned"
        /\ err = pres.err
        /\ PropertyTexts(properties) = PropertyTexts(pres.properties)
        /\ CategoryTexts(categories) = CategoryTexts(pres.categories)
        /\ components = pres.components

----------------------------------------------------------------------------
(* Properties of the stored records (specification Spec).                  *)

C22_BlankSkipped ==
    [][(pc \in {"header", "body"} /\ ~feof
            /\ IsBlank(Content(RawLine(file, pos)))) =>
           /\ pc' = pc
           /\ ~IF_PICKLE_ERROR(err')
           /\ errmsg' = errmsg
           /\ properties' = properties
           /\ categories' = categories
           /\ components' = components
           /\ nread' = nread + 1
           /\ pos' = PastLine(file, pos)]_vars

\* the blank line after the terminator has been skipped, as were three blank
\* lines of the header before it
C22_Witness ==
    /\ file = ExampleBlanks
    /\ pc = "body"
    /\ nread = 8
    /\ lastline = NoLine
    /\ err = PICKLE_PARSED_BLANK
    /\ Len(properties) = 2

\* the non-blank lines after the terminator that end in a colon
CategoryLines(f) == SelectSeq(BodyLines(FileLines(f)), IsCategoryLine)

\* C23: the categories of a document whose body was parsed are made of the
\* non-blank body lines that end in a colon and of no other line, in order,
\* each named by the text before its first colon; they are all there when
\* pickle_doc_parse returned PICKLE_OK, and the line Note: see datasheet: is
\* stored as the category named Note.
C23_FinalColonClassifies ==
    (Returned /\ TerminatorRead) =>
        LET cl == CategoryLines(file)
        IN  /\ Len(categories) <= Len(cl)
            /\ err = PICKLE_OK => Len(categories) = Len(cl)
            /\ \A i \in 1..Len(categories) :
                   NameOf(categories[i]) = NameText(cl[i])
            /\ (file = ExampleNote) =>
                   /\ Len(categories) = 1
                   /\ NameOf(categories[1]) = Str("Note")

----------------------------------------------------------------------------
(* Properties of the end of the input (specification Spec).                *)

\* C24: when the stream ends in the header, before a --- line was read,
\* pickle_doc_parse returns an error; pickle_property_parse is never called
\* with the NULL line that pickle_doc_getline leaves at the end of the stream.
C24_HeaderEndOfInput ==
    /\ ub = 0
    /\ pc # "crashed"
    /\ (pc = "returned" /\ fh = "OPEN"
            /\ Terminator(FileLines(file)) = 0) => IF_PICKLE_ERROR(err)

----------------------------------------------------------------------------
(* Properties of the calls in any order (specification SpecCalls).         *)

\* C25: in every sequence of calls on one document, the handle is open at
\* each call of pickle_doc_fclose and of pickle_doc_free, the two functions
\* that hand doc->fh to fclose: the library closes no handle that is NULL or
\* was closed before.
C25_ClosesOpenHandleOnly ==
    [][(pickle_doc_fclose \/ FreeIdle) => fh = "OPEN"]_vars

\* C26: the document never holds a pointer to storage that pickle_doc_free
\* released: doc->fname is not left pointing at the freed file name, and no
\* later pickle_doc_fopen hands the freed file name to realloc.
C26_NoReleasedStorage ==
    /\ fname # "FREED"
    /\ fname # "STALE"

----------------------------------------------------------------------------
(* Termination (specification SpecFair).                                   *)

\* C27: on every file, with or without a --- line, with or without a final
\* newline, with or without over-long lines, pickle_doc_parse returns, with
\* PICKLE_OK or with an error code, after finitely many line reads.
C27_ParseReturns ==
    <>(pc = "returned" /\ err \in PICKLE_OK..PICKLE_ERROR_NOT_IMPL)

----------------------------------------------------------------------------
(* Properties of the length limit of pickle_util_getline (SpecRead).       *)

\* C28: pickle_util_getline returns every line whose content without its
\* carriage returns is at most mlen - 1 bytes long, whether the line ends in
\* a newline, in a carriage return and a newline, or holds more carriage
\* returns: carriage returns do not count against the limit.
C28_LimitCountsContent ==
    (pres.op = "getline" /\ ~pres.eof
        /\ Len(Content(RawLine(file, pres.at))) <= maxlen - 1) =>
        /\ pres.ret = 0
        /\ pres.line = Content(RawLine(file, pres.at))

----------------------------------------------------------------------------
(* Properties of the copy routines (specification SpecCopy).               *)

\* C29: after pickle_util_strcpy the destination holds, inside its
\* allocation, a terminated string equal to the source, for the empty source
\* too; the call read no byte after the source's terminator and returned the
\* source's length.
C29_StrcpyCopiesString ==
    pres.op = "strcpy" =>
        /\ Terminated(pres.dest)
        /\ StrOf(pres.dest) = pline
        /\ ~pres.overread
        /\ pres.len = Len(pline)

\* the indices of the bytes pickle_util_strstrcpy wrote through dest: the
\* copied bytes and the terminator
Written(buf) == 1..Len(buf.bytes)

\* C30: pickle_util_strstrcpy called with start <= end copies the bytes from
\* start to end, terminates the destination, and writes every byte, the
\* terminator too, inside the (end - start) + 1 bytes it allocated.
C30_StrstrcpyInBounds ==
    pres.op = "strstrcpy" =>
        /\ pres.dest.size = (pres.last - pres.first) + 1
        /\ SubSeq(pres.dest.bytes, 1, pres.len)
               = SubSeq(pline, pres.first, pres.last)
        /\ Terminated(pres.dest)
        /\ \A i \in Written(pres.dest) : i <= pres.dest.size

====
